---- MODULE Spec2Model ----
(***************************************************************************)
(* Model of src/main.py: the KnightsTour engine (Warnsdorff's heuristic,   *)
(* no backtracking).  One KnightsTour instance is constructed and then     *)
(* solve_warnsdorff() is called on it up to MaxCalls times.  The loop body *)
(* of solve_warnsdorff() is two steps: Mark (lines 54-55) and Advance      *)
(* (lines 56-62), so that the point right after the mark-and-append is a   *)
(* state.                                                                  *)
(***************************************************************************)
EXTENDS Integers, Sequences, FiniteSets, TLC

\* Largest board size explored.
MaxN == 8
\* Start coordinates are drawn from -StartSlack .. n-1+StartSlack: the
\* constructor accepts any pair, so squares off the board are inputs too.
StartSlack == 1
\* Number of solve_warnsdorff() calls made on the one instance.
MaxCalls == 2

VARIABLES
    pc,          \* position: "new", "ValueError", "idle", "mark", "check",
                 \* "ret57", "ret60", "ret63" (the return lines), "IndexError"
    n,           \* self.n
    start,       \* self.start
    board,       \* self.board, board[r][c] with r, c in 0..n-1
    path,        \* local path of the running (or last) call
    r, c,        \* local r, c
    step,        \* loop variable
    next_moves,  \* local next_moves
    result,      \* what the last call returned (or raised)
    calls,       \* calls started so far
    history      \* <<result, board>> of every finished call, in order

vars == <<pc, n, start, board, path, r, c, step, next_moves, result, calls, history>>

\* The sentinel of an unvisited cell.
UNVISITED == -1

KNIGHT_MOVES_Typo ==
    << <<2, 1>>, <<1, 2>>, <<-1, 2>>, <<-2, 1>>,
       <<-2, -1>>, <<-1, -2>>, <<1, -2>>, <<2, 0>> >>
\* line 17
KNIGHT_MOVES ==
    << <<2, 1>>, <<1, 2>>, <<-1, 2>>, <<-2, 1>>,
       <<-2, -1>>, <<-1, -2>>, <<1, -2>>, <<2, -1>> >>

\* ---- Python values --------------------------------------------------------

PyNone == [kind |-> "None", val |-> <<>>]
PyList(s) == [kind |-> "list", val |-> s]
PyRaise(e) == [kind |-> e, val |-> <<>>]
\* No call has finished yet / a call is running.
NoResult == [kind |-> "pending", val |-> <<>>]

\* Python list indexing: an index i of a list of length len is accepted iff
\* -len <= i < len, and a negative index counts from the end.
PyIndexOK(i, len) == -len <= i /\ i < len
PyIndex(i, len) == IF i < 0 THEN i + len ELSE i

\* ---- KnightsTour helpers --------------------------------------------------

NewBoard(nn) == [i \in 0..(nn - 1) |-> [j \in 0..(nn - 1) |-> UNVISITED]]

ResetBoardNoop(b, nn) == b
\* line 49: the board is rebuilt at the start of every call
ResetBoard(b, nn) == NewBoard(nn)

InBounds(nn, rr, cc) == 0 <= rr /\ rr < nn /\ 0 <= cc /\ cc < nn

IsFreeIgnoringBoard(b, nn, rr, cc) == InBounds(nn, rr, cc)
IsFree(b, nn, rr, cc) == InBounds(nn, rr, cc) /\ b[rr][cc] = UNVISITED

RECURSIVE NeighborsFrom(_, _, _, _, _)
NeighborsFrom(b, nn, rr, cc, k) ==
    IF k > Len(KNIGHT_MOVES) THEN <<>>
    ELSE LET tr == rr + KNIGHT_MOVES[k][1]
             tc == cc + KNIGHT_MOVES[k][2]
         IN  (IF IsFree(b, nn, tr, tc) THEN << <<tr, tc>> >> ELSE <<>>)
             \o NeighborsFrom(b, nn, rr, cc, k + 1)

NeighborsSkipFirst(b, nn, rr, cc) == NeighborsFrom(b, nn, rr, cc, 2)
Neighbors(b, nn, rr, cc) == NeighborsFrom(b, nn, rr, cc, 1)

\* the sort key of line 43
KeyNegated(b, nn, pos) == 0 - Len(Neighbors(b, nn, pos[1], pos[2]))
Key(b, nn, pos) == Len(Neighbors(b, nn, pos[1], pos[2]))

\* list.sort(key=...) computes the key of every element once, sorts the
\* <<key, element>> pairs by key and drops the keys again.  The sort is
\* stable and ascending: a pair goes after every pair already placed whose
\* key is not larger.
RECURSIVE Keyed(_, _, _, _)
Keyed(b, nn, moves, i) ==
    IF i > Len(moves) THEN <<>>
    ELSE << <<Key(b, nn, moves[i]), moves[i]>> >> \o Keyed(b, nn, moves, i + 1)

InsertByKeyBeforeTies(s, x) ==
    LET p == Cardinality({i \in DOMAIN s : s[i][1] < x[1]})
    IN  SubSeq(s, 1, p) \o <<x>> \o SubSeq(s, p + 1, Len(s))
InsertByKey(s, x) ==
    LET p == Cardinality({i \in DOMAIN s : s[i][1] <= x[1]})
    IN  SubSeq(s, 1, p) \o <<x>> \o SubSeq(s, p + 1, Len(s))

RECURSIVE SortByKey(_, _, _)
SortByKey(keyed, i, acc) ==
    IF i > Len(keyed) THEN acc
    ELSE SortByKey(keyed, i + 1, InsertByKey(acc, keyed[i]))

RECURSIVE Unkeyed(_, _)
Unkeyed(keyed, i) ==
    IF i > Len(keyed) THEN <<>>
    ELSE <<keyed[i][2]>> \o Unkeyed(keyed, i + 1)

WarnsdorffSort(b, nn, rr, cc) ==
    Unkeyed(SortByKey(Keyed(b, nn, Neighbors(b, nn, rr, cc), 1), 1, <<>>), 1)

\* line 60: what a dead end returns
DeadEndResultPath(p) == PyList(p)
DeadEndResult(p) == PyNone

\* ---- Actions --------------------------------------------------------------

Init ==
    /\ pc = "new"
    /\ n = 0
    /\ start = <<0, 0>>
    /\ board = NewBoard(0)
    /\ path = <<>>
    /\ r = 0
    /\ c = 0
    /\ step = 0
    /\ next_moves = <<>>
    /\ result = NoResult
    /\ calls = 0
    /\ history = <<>>

\* KnightsTour(nn, st)
Construct(nn, st) ==
    /\ pc = "new"
    /\ IF nn < 1
       THEN /\ pc' = "ValueError"
            /\ UNCHANGED <<n, start, board>>
       ELSE /\ pc' = "idle"
            /\ n' = nn
            /\ start' = st
            /\ board' = NewBoard(nn)
    /\ UNCHANGED <<path, r, c, step, next_moves, result, calls, history>>

Terminal == {"ret57", "ret60", "ret63", "IndexError"}

\* solve_warnsdorff(), lines 48-53: up to the first iteration's head
SolveBegin ==
    /\ pc \in {"idle"} \cup Terminal
    /\ calls < MaxCalls
    /\ calls' = calls + 1
    /\ r' = start[1]
    /\ c' = start[2]
    /\ board' = ResetBoard(board, n)
    /\ path' = <<>>
    /\ step' = 0
    /\ next_moves' = <<>>
    /\ result' = NoResult
    /\ pc' = IF 0 < n * n THEN "mark" ELSE "ret63"
    /\ UNCHANGED <<n, start, history>>

\* lines 54-55
Mark ==
    /\ pc = "mark"
    /\ IF PyIndexOK(r, n) /\ PyIndexOK(c, n)
       THEN /\ board' = [board EXCEPT ![PyIndex(r, n)][PyIndex(c, n)] = step]
            /\ path' = Append(path, <<r, c>>)
            /\ pc' = "check"
            /\ UNCHANGED <<result, history>>
       ELSE /\ pc' = "IndexError"
            /\ result' = PyRaise("IndexError")
            /\ history' = Append(history, <<PyRaise("IndexError"), board>>)
            /\ UNCHANGED <<board, path>>
    /\ UNCHANGED <<n, start, r, c, step, next_moves, calls>>

\* lines 56-62, and the loop head of the next iteration (line 53, 63)
Advance ==
    /\ pc = "check"
    /\ IF step = n * n - 1
       THEN /\ pc' = "ret57"
            /\ result' = PyList(path)
            /\ history' = Append(history, <<PyList(path), board>>)
            /\ UNCHANGED <<r, c, step, next_moves>>
       ELSE /\ next_moves' = WarnsdorffSort(board, n, r, c)
            /\ IF next_moves' = <<>>
               THEN /\ pc' = "ret60"
                    /\ result' = DeadEndResult(path)
                    /\ history' = Append(history, <<DeadEndResult(path), board>>)
                    /\ UNCHANGED <<r, c, step>>
               ELSE /\ r' = next_moves'[1][1]
                    /\ c' = next_moves'[1][2]
                    /\ step' = step + 1
                    /\ IF step + 1 < n * n
                       THEN /\ pc' = "mark"
                            /\ UNCHANGED <<result, history>>
                       ELSE /\ pc' = "ret63"
                            /\ result' = PyNone
                            /\ history' = Append(history, <<PyNone, board>>)
    /\ UNCHANGED <<n, start, board, path, calls>>

Next ==
    \/ /\ pc = "new"
       /\ \E nn \in 0..MaxN :
            \E sr \in (0 - StartSlack)..(nn - 1 + StartSlack) :
              \E sc \in (0 - StartSlack)..(nn - 1 + StartSlack) :
                Construct(nn, <<sr, sc>>)
    \/ SolveBegin
    \/ Mark
    \/ Advance

Spec == Init /\ [][Next]_vars

\* ---- Vocabulary of the properties -----------------------------------------

Squares(nn) == (0..(nn - 1)) \X (0..(nn - 1))
PathSet(p) == {p[i] : i \in DOMAIN p}
Distinct(p) == \A i, j \in DOMAIN p : i # j => p[i] # p[j]
Abs(x) == IF x < 0 THEN 0 - x ELSE x
\* knight geometry: (+-1,+-2) and (+-2,+-1)
IsKnightOffset(dr, dc) ==
    /\ Abs(dr) \in {1, 2}
    /\ Abs(dc) \in {1, 2}
    /\ Abs(dr) + Abs(dc) = 3
ValidStart == start \in Squares(n)
\* a cell of the board that holds the sentinel
FreeCell(sq) == sq \in Squares(n) /\ board[sq[1]][sq[2]] = UNVISITED
Target(sq, k) == <<sq[1] + KNIGHT_MOVES[k][1], sq[2] + KNIGHT_MOVES[k][2]>>
\* onward mobility of a square on the current board
Mobility(sq) == Cardinality({k \in DOMAIN KNIGHT_MOVES : FreeCell(Target(sq, k))})
Last(p) == p[Len(p)]
\* board size and start square the command line uses when given no flags
DefaultN == 8
DefaultStart == <<0, 0>>

\* ---- C1 -------------------------------------------------------------------
\* C1: for N >= 5 and a start square on the board, a finished call returned
\* either None or a list of exactly N*N pairwise distinct squares that are
\* exactly the squares of the board.
C1_CompleteOrFailure ==
    (pc \in Terminal /\ n >= 5 /\ ValidStart) =>
        \/ result = PyNone
        \/ /\ result.kind = "list"
           /\ Len(result.val) = n * n
           /\ Distinct(result.val)
           /\ PathSet(result.val) = Squares(n)

C1_Witness ==
    /\ pc = "ret57" /\ n >= 6 /\ ValidStart
    /\ result.kind = "list" /\ Len(result.val) = n * n

\* ---- C2 -------------------------------------------------------------------
\* C2: in a path returned as a success, consecutive squares differ by a
\* knight offset, and that offset is one of the entries of KNIGHT_MOVES.
C2_KnightSteps ==
    pc = "ret57" =>
        \A i \in 1..(Len(result.val) - 1) :
            LET dr == result.val[i + 1][1] - result.val[i][1]
                dc == result.val[i + 1][2] - result.val[i][2]
            IN  /\ IsKnightOffset(dr, dc)
                /\ \E k \in DOMAIN KNIGHT_MOVES : KNIGHT_MOVES[k] = <<dr, dc>>

C2_Witness ==
    /\ pc = "ret57" /\ n = 5 /\ Len(result.val) = 25 /\ calls = 1

\* ---- C3 -------------------------------------------------------------------
\* C3: right after every mark-and-append (and in the state a call ends in) a
\* cell is marked iff its square is in path, the mark is the square's 0-based
\* position in path, no square is in path twice, and (r, c) is path's last
\* element.
C3_BoardMatchesPath ==
    pc \in {"check", "ret57", "ret60"} =>
        /\ \A sq \in Squares(n) :
              board[sq[1]][sq[2]] # UNVISITED <=> sq \in PathSet(path)
        /\ \A i \in DOMAIN path :
              /\ path[i] \in Squares(n)
              /\ board[path[i][1]][path[i][2]] = i - 1
        /\ Distinct(path)
        /\ <<r, c>> = Last(path)

\* With a start square on the board the statement of C3 holds: the only runs
\* that break it are the ones C4 says cannot exist.
C3_OnBoardStart == ValidStart => C3_BoardMatchesPath

\* ---- C4 -------------------------------------------------------------------
\* C4: an instance never exists with a start square off the board, and the
\* loop of solve_warnsdorff() never runs from such a start.
C4_StartValidated ==
    pc \notin {"new", "ValueError"} => ValidStart

NeighborsCorrect(sq) ==
    LET res == Neighbors(board, n, sq[1], sq[2]) IN
    /\ \A i \in DOMAIN res : FreeCell(res[i])
    /\ \A k \in DOMAIN KNIGHT_MOVES :
          FreeCell(Target(sq, k)) => \E i \in DOMAIN res : res[i] = Target(sq, k)
    /\ \A i, j \in DOMAIN res :
          i < j => \E ki, kj \in DOMAIN KNIGHT_MOVES :
                      /\ ki < kj
                      /\ res[i] = Target(sq, ki)
                      /\ res[j] = Target(sq, kj)

C6_Neighbors ==
    pc = "check" =>
        /\ NeighborsCorrect(<<r, c>>)
        /\ \A k \in DOMAIN KNIGHT_MOVES : NeighborsCorrect(Target(<<r, c>>, k))

C6_Witness ==
    /\ pc = "check" /\ step >= 3
    /\ Len(Neighbors(board, n, r, c)) >= 2
    /\ \E k \in DOMAIN KNIGHT_MOVES :
          /\ Target(<<r, c>>, k) \in Squares(n)
          /\ ~FreeCell(Target(<<r, c>>, k))
    /\ \E k \in DOMAIN KNIGHT_MOVES : Target(<<r, c>>, k) \notin Squares(n)

\* ---- C7 -------------------------------------------------------------------
\* C7: the list _warnsdorff_sort returned for the square just marked is a
\* permutation of _neighbors of that square, in non-decreasing onward
\* mobility, equal mobilities in the order _neighbors listed them, and the
\* knight moves to its first element.
PosIn(s, x) == CHOOSE i \in DOMAIN s : s[i] = x

C7_WarnsdorffOrder ==
    ((pc = "mark" /\ step > 0) \/ pc = "ret60") =>
        LET cur == Last(path)
            legal == Neighbors(board, n, cur[1], cur[2])
        IN  /\ Len(next_moves) = Len(legal)
            /\ PathSet(next_moves) = PathSet(legal)
            /\ \A i, j \in DOMAIN next_moves :
                  i < j =>
                     /\ Mobility(next_moves[i]) <= Mobility(next_moves[j])
                     /\ Mobility(next_moves[i]) = Mobility(next_moves[j])
                           => PosIn(legal, next_moves[i]) < PosIn(legal, next_moves[j])
            /\ pc = "mark" => <<r, c>> = next_moves[1]

C7_Witness ==
    /\ pc = "mark" /\ step > 0
    /\ Len(next_moves) >= 3
    /\ next_moves # Neighbors(board, n, Last(path)[1], Last(path)[2])
    /\ \E i \in DOMAIN next_moves :
          /\ i < Len(next_moves)
          /\ Mobility(next_moves[i]) = Mobility(next_moves[i + 1])
    /\ <<r, c>> = next_moves[1]

\* ---- C8 -------------------------------------------------------------------
\* C8: all calls made on one instance returned the same result and left the
\* same board.
C8_Repeatable ==
    \A i, j \in DOMAIN history : history[i] = history[j]

C8_Witness ==
    /\ Len(history) >= 2
    /\ history[1][1] = PyNone
    /\ n >= 5 /\ ValidStart
    /\ \E sq \in Squares(n) : history[2][2][sq[1]][sq[2]] = UNVISITED
    /\ \E sq \in Squares(n) : history[2][2][sq[1]][sq[2]] > 0

\* ---- C9 -------------------------------------------------------------------
\* C9: from the command line's defaults, N = 8 and start (0, 0), a finished
\* call returned a path of 64 squares covering the board.
C9_DefaultTour ==
    (pc \in Terminal /\ n = DefaultN /\ start = DefaultStart) =>
        /\ result.kind = "list"
        /\ Len(result.val) = DefaultN * DefaultN
        /\ PathSet(result.val) = Squares(DefaultN)

C9_Witness ==
    /\ pc = "ret57" /\ n = DefaultN /\ start = DefaultStart
    /\ result.kind = "list" /\ result.val[1] = DefaultStart

\* ---- C10 ------------------------------------------------------------------
\* C10: a run is one forward pass.  Every Mark step appends one square and
\* marks one cell that was unvisited; no step of a run changes or clears a
\* marked cell; the loop variable stays below N*N; and a run ends either in
\* success at step N*N-1 or in failure at a square without a free neighbour,
\* never at the fall-through return and never any other way.
MarkedCells(b) == {sq \in Squares(n) : b[sq[1]][sq[2]] # UNVISITED}

C10_Outcomes ==
    /\ pc \in {"mark", "check"} => step < n * n
    /\ pc \in Terminal => pc \in {"ret57", "ret60"}
    /\ pc = "ret57" => (step = n * n - 1 /\ result = PyList(path))
    /\ pc = "ret60" =>
          /\ step < n * n - 1
          /\ \A k \in DOMAIN KNIGHT_MOVES : ~FreeCell(Target(<<r, c>>, k))

C10_Step ==
    /\ (pc = "mark" /\ pc' = "check") =>
          /\ Len(path') = Len(path) + 1
          /\ \E sq \in Squares(n) :
                /\ board[sq[1]][sq[2]] = UNVISITED
                /\ MarkedCells(board') = MarkedCells(board) \cup {sq}
    /\ (pc \in {"mark", "check"}) =>
          \A sq \in MarkedCells(board) : board'[sq[1]][sq[2]] = board[sq[1]][sq[2]]
    /\ (pc = "check" /\ pc' = "mark") => step' = step + 1

C10_SinglePass == [][C10_Step]_vars /\ []C10_Outcomes

\* With a start square on the board the outcomes of C10 hold: the only run
\* that ends another way is the IndexError of a start that indexes no cell.
C10_OnBoardStart == ValidStart => C10_Outcomes

====
